---- MODULE Spec2Model ----
(***************************************************************************)
(* quasar-ssg-helper: generateSsg (src/index.js).                          *)
(*                                                                         *)
(* One run of generateSsg is modelled as the sequence of synchronous       *)
(* segments of the async function _generateSsg (one action per segment     *)
(* between two awaits), the event-loop callbacks it registers (the stdout  *)
(* 'data' listener, the setTimeout callback, the continuation of the HTTP  *)
(* GET), and the asynchronous library operations it starts (ensureDir,     *)
(* emptyDir, copy, getPort, get, outputFile), each of which is started by  *)
(* the call and completes in a later step of the event loop.               *)
(***************************************************************************)
EXTENDS Integers, Sequences, FiniteSets, TLC

(***************************************************************************)
(* Bounds of the model.                                                    *)
(***************************************************************************)
\* how many chunks the child writes to its standard output in one run
MaxChunks == 2
\* how many inter-process messages the child sends in one run
MaxMsgs == 1

(***************************************************************************)
(* Program constants.                                                      *)
(***************************************************************************)
\* the largest valid TCP port (index.js:82)
MaxPort == 65535

(***************************************************************************)
(* JavaScript values.                                                      *)
(***************************************************************************)
\* a JS number is NaN or an integer
NaN == [nan |-> TRUE, v |-> 0]
Num(n) == [nan |-> FALSE, v |-> n]
\* ToBoolean of a JS number: NaN and 0 are falsy
Truthy(x) == ~x.nan /\ x.v # 0

Digits == {"0", "1", "2", "3", "4", "5", "6", "7", "8", "9"}
DigitVal(c) ==
    CASE c = "0" -> 0 [] c = "1" -> 1 [] c = "2" -> 2 [] c = "3" -> 3
      [] c = "4" -> 4 [] c = "5" -> 5 [] c = "6" -> 6 [] c = "7" -> 7
      [] c = "8" -> 8 [] c = "9" -> 9

RECURSIVE DecimalValue(_)
DecimalValue(s) ==
    IF s = <<>> THEN 0
    ELSE 10 * DecimalValue(SubSeq(s, 1, Len(s) - 1)) + DigitVal(s[Len(s)])

\* Number(process.env.PORT): an unset variable is undefined and gives NaN, the
\* empty string gives 0, a decimal numeral (with an optional sign) its value,
\* any other text NaN.  e is [set |-> BOOLEAN, s |-> sequence of characters].
NumberOfEnv(e) ==
    IF ~e.set THEN NaN
    ELSE IF e.s = <<>> THEN Num(0)
    ELSE IF \A i \in 1..Len(e.s) : e.s[i] \in Digits THEN Num(DecimalValue(e.s))
    ELSE IF /\ Len(e.s) > 1
            /\ e.s[1] = "-"
            /\ \A i \in 2..Len(e.s) : e.s[i] \in Digits
         THEN Num(0 - DecimalValue(Tail(e.s)))
    ELSE NaN

\* Number(port) for the values the port option takes: undefined and a
\* two-element array give NaN, a number gives itself.
NumberOfPort(p) == IF p.kind = "number" THEN Num(p.v) ELSE NaN

(***************************************************************************)
(* Inputs of a run.                                                        *)
(***************************************************************************)
PortUndefined == [kind |-> "undefined", v |-> 0, lo |-> 0, hi |-> 0]
PortNumber(n) == [kind |-> "number", v |-> n, lo |-> 0, hi |-> 0]
PortRange(l, h) == [kind |-> "array", v |-> 0, lo |-> l, hi |-> h]

PortOptions ==
    {PortUndefined, PortNumber(0), PortNumber(8080), PortNumber(70000),
     PortRange(5000, 5010)}

EnvUnset == [set |-> FALSE, s |-> <<>>]
EnvStr(s) == [set |-> TRUE, s |-> s]
EnvOptions ==
    {EnvUnset, EnvStr(<<"0">>), EnvStr(<<"3", "0", "0", "0">>),
     EnvStr(<<"7", "0", "0", "0", "0">>)}

WaitString(s) == [kind |-> "string", s |-> s, n |-> 0]
WaitNumber(n) == [kind |-> "number", s |-> "", n |-> n]
WaitOther == [kind |-> "undefined", s |-> "", n |-> 0]
WaitOptions ==
    {WaitString("stdout"), WaitString("ipc"), WaitString("bogus"),
     WaitNumber(50), WaitNumber(0), WaitNumber(-5), WaitOther}

\* ports that the free-port search may find free
CandidatePorts == {5003, 9000}

\* the directories capture and preparation write to
DefaultSsg == "dist/ssg"
SsgDirs == {DefaultSsg, "out"}

StaticEntries == {"foo.css"}
Names == StaticEntries \cup {"old.txt", "index.html"}
EmptyDirectory == [n \in Names |-> "absent"]
\* the output directory as a previous build left it
StaleDirectory ==
    [n \in Names |-> IF n \in {"foo.css", "old.txt"} THEN "stale" ELSE "absent"]

VARIABLES
    envPort,      \* module constant envPort (index.js:19), a JS number
    cfg,          \* the merged parameter object: port, wait, dir.ssg, and whether dir.ssr exists
    freePorts,    \* ports the operating system has free
    pc,           \* position of _generateSsg
    promise,      \* the promise returned by generateSsg
    err,          \* the error it was rejected with
    port,         \* local variable port of _generateSsg
    console,      \* messages written by console.assert
    fs,           \* files of the two directories
    ensureDirSt,  \* ensureDir(dir.ssg)
    emptyDirSt,   \* emptyDir(dir.ssg)
    emptyItems,   \* entries emptyDir listed and has still to remove
    copyTodo,     \* entries copy(dir.static, dir.ssg) has still to copy
    copySt,       \* copy(dir.static, dir.ssg)
    getPortCalls, \* arguments of the calls of getPort
    child,        \* the spawned server process
    spawns,       \* number of calls of spawn
    kills,        \* number of calls of srvProc.kill
    listener,     \* event name the capture callback is registered for on srvProc.stdout
    pipe,         \* chunks written by the child and not yet delivered
    emitted,      \* chunks written by the child
    observed,     \* chunks delivered to the 'data' listener
    msgs,         \* inter-process messages sent by the child
    timer,        \* the setTimeout timer
    handlers,     \* invocations of the capture callback
    gets,         \* ports of the HTTP GETs issued
    writes        \* calls of outputFile

vars ==
    <<envPort, cfg, freePorts, pc, promise, err, port, console, fs, ensureDirSt,
      emptyDirSt, emptyItems, copyTodo, copySt, getPortCalls, child, spawns,
      kills, listener, pipe, emitted, observed, msgs, timer, handlers, gets,
      writes>>

\* the two directories before the run: dir.ssg holds an earlier build
InitialFs == [d \in SsgDirs |-> IF d = cfg.ssg THEN StaleDirectory ELSE EmptyDirectory]

NoChild == [state |-> "none", stdio |-> "none", PORT |-> 0]

Init ==
    /\ \E e \in EnvOptions : envPort = NumberOfEnv(e)
    /\ cfg \in [port : PortOptions, wait : WaitOptions, ssg : SsgDirs,
                ssrExists : BOOLEAN]
    /\ freePorts \in SUBSET CandidatePorts
    /\ pc = "idle"
    /\ promise = "none"
    /\ err = "none"
    /\ port = cfg.port
    /\ console = {}
    /\ fs = InitialFs
    /\ ensureDirSt = "idle"
    /\ emptyDirSt = "idle"
    /\ emptyItems = {}
    /\ copyTodo = {}
    /\ copySt = "idle"
    /\ getPortCalls = <<>>
    /\ child = NoChild
    /\ spawns = 0
    /\ kills = 0
    /\ listener = "none"
    /\ pipe = 0
    /\ emitted = 0
    /\ observed = 0
    /\ msgs = 0
    /\ timer = "none"
    /\ handlers = <<>>
    /\ gets = <<>>
    /\ writes = <<>>

fsVars == <<fs, ensureDirSt, emptyDirSt, emptyItems, copyTodo, copySt>>
procVars == <<child, spawns, kills, listener, timer>>
ioVars == <<pipe, emitted, observed, msgs>>
capVars == <<handlers, gets, writes>>
inVars == <<envPort, cfg, freePorts>>

\* generateSsg(parObj): _generateSsg runs up to its first await, of pathExists(dir.ssr)
generateSsg ==
    /\ pc = "idle"
    /\ pc' = "pathExists"
    /\ promise' = "pending"
    /\ UNCHANGED <<inVars, err, port, console, fsVars, getPortCalls, procVars,
                   ioVars, capVars>>

\* second segment (index.js:64-70): console.assert only writes its message and
\* returns; ensureDir, emptyDir and copy are all three called while the
\* expression is evaluated (the results of emptyDir and copy are the arguments
\* of then), and the await waits for the promise of ensureDir alone.
AfterPathExists ==
    /\ pc = "pathExists"
    /\ console' = IF cfg.ssrExists THEN console
                  ELSE console \cup {"SSR dist path does not exist"}
    /\ ensureDirSt' = "pending"
    /\ emptyDirSt' = "listing"
    /\ copySt' = "copying"
    /\ copyTodo' = StaticEntries
    /\ pc' = "ensureDir"
    /\ UNCHANGED <<inVars, promise, err, port, fs, emptyItems, getPortCalls,
                   procVars, ioVars, capVars>>

\* ensureDir(dir.ssg) completes
EnsureDirDone ==
    /\ ensureDirSt = "pending"
    /\ ensureDirSt' = "done"
    /\ UNCHANGED <<inVars, pc, promise, err, port, console, fs, emptyDirSt,
                   emptyItems, copyTodo, copySt, getPortCalls, procVars, ioVars,
                   capVars>>

\* emptyDir(dir.ssg) reads the entries of the directory
EmptyDirList ==
    /\ emptyDirSt = "listing"
    /\ LET items == {n \in Names : fs[cfg.ssg][n] # "absent"}
       IN /\ emptyItems' = items
          /\ emptyDirSt' = IF items = {} THEN "done" ELSE "removing"
    /\ UNCHANGED <<inVars, pc, promise, err, port, console, fs, ensureDirSt,
                   copyTodo, copySt, getPortCalls, procVars, ioVars, capVars>>

\* emptyDir(dir.ssg) removes one of the entries it listed
EmptyDirRemove ==
    /\ emptyDirSt = "removing"
    /\ \E n \in emptyItems :
          /\ fs' = [fs EXCEPT ![cfg.ssg][n] = "absent"]
          /\ emptyItems' = emptyItems \ {n}
          /\ emptyDirSt' = IF emptyItems = {n} THEN "done" ELSE "removing"
    /\ UNCHANGED <<inVars, pc, promise, err, port, console, ensureDirSt,
                   copyTodo, copySt, getPortCalls, procVars, ioVars, capVars>>

\* copy(dir.static, dir.ssg) copies one entry of dir.static
CopyEntry ==
    /\ copySt = "copying"
    /\ \E n \in copyTodo :
          /\ fs' = [fs EXCEPT ![cfg.ssg][n] = "static"]
          /\ copyTodo' = copyTodo \ {n}
          /\ copySt' = IF copyTodo = {n} THEN "done" ELSE "copying"
    /\ UNCHANGED <<inVars, pc, promise, err, port, console, ensureDirSt,
                   emptyDirSt, emptyItems, getPortCalls, procVars, ioVars,
                   capVars>>

(***************************************************************************)
(* Port resolution (index.js:72-80).                                       *)
(***************************************************************************)
\* PortResolution with the environment value tried before the port option
PortResolution_EnvFirst(p, env) ==
    IF Truthy(env) THEN [how |-> "env", v |-> env.v]
    ELSE IF Truthy(NumberOfPort(p)) THEN [how |-> "explicit", v |-> p.v]
    ELSE IF p.kind = "array" THEN [how |-> "range", v |-> 0]
    ELSE [how |-> "any", v |-> 0]

\* PortResolution with the range of the port option dropped: every search is
\* the unrestricted one
PortResolution_NoRange(p, env) ==
    IF ~Truthy(NumberOfPort(p))
    THEN IF Truthy(env) THEN [how |-> "env", v |-> env.v]
         ELSE [how |-> "any", v |-> 0]
    ELSE [how |-> "explicit", v |-> p.v]

\* what lines 72-80 do with the port option p and the module constant env
PortResolution(p, env) ==
    IF ~Truthy(NumberOfPort(p))
    THEN IF Truthy(env) THEN [how |-> "env", v |-> env.v]
         ELSE IF p.kind = "array" THEN [how |-> "range", v |-> 0]
         ELSE [how |-> "any", v |-> 0]
    ELSE [how |-> "explicit", v |-> p.v]

\* getPort({startPort, stopPort}) and getPort(): the ports the search can give
FreePortSearch(call) ==
    IF call.ranged
    THEN {q \in freePorts : call.startPort <= q /\ q <= call.stopPort}
    ELSE freePorts

\* { stdout: 'pipe', ipc: 'ipc' }[wait]
StdioOption(w) ==
    CASE w = "stdout" -> "pipe" [] w = "ipc" -> "ipc" [] OTHER -> "undefined"

\* { stdout: 'data', ipc: 'message' }[wait]
EventName(w) ==
    CASE w = "stdout" -> "data" [] w = "ipc" -> "message" [] OTHER -> "undefined"

\* spawnSrv with the inherited environment spread after PORT: a PORT of the
\* parent's environment replaces the resolved port
spawnSrv_InheritedPort(p, stdout) ==
    [state |-> "alive",
     stdio |-> IF stdout = "undefined" THEN "pipe" ELSE stdout,
     PORT |-> IF envPort.nan THEN p ELSE envPort.v]

\* spawnSrv(cwd, ssrDir, port, stdout): stdio [ignore, stdout, ignore]; an
\* undefined entry of stdio is the default, a pipe
spawnSrv(p, stdout) ==
    [state |-> "alive",
     stdio |-> IF stdout = "undefined" THEN "pipe" ELSE stdout,
     PORT |-> p]

\* srvProc.stdout is a stream only when fd 1 of the child is a pipe
HasStdout(c) == c.stdio = "pipe"

\* lines 82-113 of _generateSsg with the resolved port p; one synchronous
\* segment, at the end of which the async function returns or throws
Controller(p) ==
    LET portMsg == IF p > 0 /\ p <= MaxPort THEN {} ELSE {"No available ports"}
    IN
    /\ port' = PortNumber(p)
    /\ pc' = "done"
    /\ kills' = kills
    /\ IF cfg.wait.kind = "string"
       THEN LET c == spawnSrv(p, StdioOption(cfg.wait.s))
            IN /\ console' = console \cup portMsg \cup
                    (IF cfg.wait.s \in {"stdout", "ipc"} THEN {}
                     ELSE {"Invalid String parameter"})
               /\ child' = c
               /\ spawns' = spawns + 1
               /\ timer' = timer
               /\ IF HasStdout(c)
                  THEN /\ listener' = EventName(cfg.wait.s)
                       /\ promise' = "resolved"
                       /\ err' = err
                  ELSE \* srvProc.stdout is null: TypeError
                       /\ listener' = listener
                       /\ promise' = "rejected"
                       /\ err' = "TypeError"
       ELSE IF cfg.wait.kind = "number"
       THEN /\ console' = console \cup portMsg \cup
                    (IF cfg.wait.n > 0 THEN {} ELSE {"Invalid Number parameter"})
            /\ child' = spawnSrv(p, "ignore")
            /\ spawns' = spawns + 1
            /\ timer' = "armed"
            /\ listener' = listener
            /\ promise' = "resolved"
            /\ err' = err
       ELSE /\ console' = console \cup portMsg
            /\ promise' = "rejected"
            /\ err' = "Invalid parameters"
            /\ UNCHANGED <<child, spawns, timer, listener>>

\* third segment (index.js:72-80, then 82-113 when no search is needed)
AfterEnsureDir ==
    /\ pc = "ensureDir"
    /\ ensureDirSt = "done"
    /\ LET r == PortResolution(port, envPort)
       IN IF r.how \in {"env", "explicit"}
          THEN Controller(r.v) /\ UNCHANGED getPortCalls
          ELSE /\ getPortCalls' = Append(getPortCalls,
                     [ranged |-> r.how = "range", startPort |-> port.lo,
                      stopPort |-> port.hi])
               /\ pc' = "getPort"
               /\ UNCHANGED <<promise, err, port, console, procVars>>
    /\ UNCHANGED <<inVars, fsVars, ioVars, capVars>>

\* getPort resolves with a free port: the rest of _generateSsg runs
GetPortResolves ==
    /\ pc = "getPort"
    /\ \E q \in FreePortSearch(getPortCalls[Len(getPortCalls)]) : Controller(q)
    /\ UNCHANGED <<inVars, fsVars, getPortCalls, ioVars, capVars>>

\* getPort rejects (no open port): the await throws and the promise is rejected
GetPortRejects ==
    /\ pc = "getPort"
    /\ FreePortSearch(getPortCalls[Len(getPortCalls)]) = {}
    /\ pc' = "done"
    /\ promise' = "rejected"
    /\ err' = "No open ports found"
    /\ UNCHANGED <<inVars, port, console, fsVars, getPortCalls, procVars, ioVars,
                   capVars>>

(***************************************************************************)
(* The child process and the event loop.                                   *)
(***************************************************************************)
\* the child writes a chunk to its standard output, which is a pipe
ChildWritesStdout ==
    /\ child.state = "alive"
    /\ child.stdio = "pipe"
    /\ emitted < MaxChunks
    /\ emitted' = emitted + 1
    /\ pipe' = pipe + 1
    /\ UNCHANGED <<inVars, pc, promise, err, port, console, fsVars, getPortCalls,
                   procVars, observed, msgs, capVars>>

\* the child sends a message over the channel it has as fd 1
ChildSendsMessage ==
    /\ child.state = "alive"
    /\ child.stdio = "ipc"
    /\ msgs < MaxMsgs
    /\ msgs' = msgs + 1
    /\ UNCHANGED <<inVars, pc, promise, err, port, console, fsVars, getPortCalls,
                   procVars, pipe, emitted, observed, capVars>>

\* the timer of setTimeout(..., wait) runs out
TimerExpires ==
    /\ timer = "armed"
    /\ timer' = "expired"
    /\ UNCHANGED <<inVars, pc, promise, err, port, console, fsVars, getPortCalls,
                   child, spawns, kills, listener, ioVars, capVars>>

\* the callback of lines 95-98 and 107-110 starts: captureIndex(port) issues
\* the GET of http://127.0.0.1:port/ and the callback awaits it
StartCapture ==
    /\ handlers' = Append(handlers, [st |-> "get", live |-> child.state = "alive"])
    /\ gets' = Append(gets, port.v)
    /\ writes' = writes

\* a chunk arrives on srvProc.stdout, which has a listener for 'data'
\* (registered with on: it stays registered)
OnStdoutData ==
    /\ listener = "data"
    /\ pipe > 0
    /\ pipe' = pipe - 1
    /\ observed' = observed + 1
    /\ StartCapture
    /\ UNCHANGED <<inVars, pc, promise, err, port, console, fsVars, getPortCalls,
                   procVars, emitted, msgs>>

\* OnTimeout with the callback run as soon as the timer is set
OnTimeout_Immediate ==
    /\ timer = "armed"
    /\ timer' = "fired"
    /\ StartCapture
    /\ UNCHANGED <<inVars, pc, promise, err, port, console, fsVars, getPortCalls,
                   child, spawns, kills, listener, ioVars>>

\* the callback of setTimeout runs
OnTimeout ==
    /\ timer = "expired"
    /\ timer' = "fired"
    /\ StartCapture
    /\ UNCHANGED <<inVars, pc, promise, err, port, console, fsVars, getPortCalls,
                   child, spawns, kills, listener, ioVars>>

\* the GET succeeds (index.js:142, 96-97, 108-109): the then callback calls
\* outputFile('dist/ssg/index.html', data) and returns undefined without
\* waiting for it, the await of the callback ends and srvProc.kill() is called
GetResolves ==
    /\ \E i \in 1..Len(handlers) :
          /\ handlers[i].st = "get"
          /\ handlers[i].live
          /\ handlers' = [handlers EXCEPT ![i].st = "done"]
    /\ writes' = Append(writes, "pending")
    /\ kills' = kills + 1
    /\ child' = [child EXCEPT !.state = "killed"]
    /\ UNCHANGED <<inVars, pc, promise, err, port, console, fsVars, getPortCalls,
                   spawns, listener, timer, ioVars, gets>>

\* the GET fails: the await in the callback throws, the promise of the callback
\* is rejected and nobody handles it; srvProc.kill() is not reached
GetRejects ==
    /\ \E i \in 1..Len(handlers) :
          /\ handlers[i].st = "get"
          /\ handlers' = [handlers EXCEPT ![i].st = "failed"]
    /\ UNCHANGED <<inVars, pc, promise, err, port, console, fsVars, getPortCalls,
                   procVars, ioVars, gets, writes>>

\* outputFile('dist/ssg/index.html', data) completes
WriteCompletes ==
    /\ \E j \in 1..Len(writes) :
          /\ writes[j] = "pending"
          /\ writes' = [writes EXCEPT ![j] = "done"]
    /\ fs' = [fs EXCEPT ![DefaultSsg]["index.html"] = "doc"]
    /\ UNCHANGED <<inVars, pc, promise, err, port, console, ensureDirSt,
                   emptyDirSt, emptyItems, copyTodo, copySt, getPortCalls,
                   procVars, ioVars, handlers, gets>>

\* outputFile('dist/ssg/index.html', data) fails; its promise was dropped
WriteFails ==
    /\ \E j \in 1..Len(writes) :
          /\ writes[j] = "pending"
          /\ writes' = [writes EXCEPT ![j] = "failed"]
    /\ UNCHANGED <<inVars, pc, promise, err, port, console, fsVars, getPortCalls,
                   procVars, ioVars, handlers, gets>>

Next ==
    \/ generateSsg
    \/ AfterPathExists
    \/ EnsureDirDone
    \/ EmptyDirList
    \/ EmptyDirRemove
    \/ CopyEntry
    \/ AfterEnsureDir
    \/ GetPortResolves
    \/ GetPortRejects
    \/ ChildWritesStdout
    \/ ChildSendsMessage
    \/ TimerExpires
    \/ OnStdoutData
    \/ OnTimeout
    \/ GetResolves
    \/ GetRejects
    \/ WriteCompletes
    \/ WriteFails

Spec == Init /\ [][Next]_vars

(***************************************************************************)
(* Properties.                                                             *)
(***************************************************************************)
\* the promise of generateSsg is settled
Settled == promise \in {"resolved", "rejected"}
\* lines 72-80 have produced a port (the search, if any, found one)
Resolved == pc = "done" /\ err # "No open ports found"
\* some invocation of the capture callback has ended
CaptureEnded == \E i \in 1..Len(handlers) : handlers[i].st \in {"done", "failed"}
ValidWait ==
    \/ cfg.wait.kind = "string" /\ cfg.wait.s \in {"stdout", "ipc"}
    \/ cfg.wait.kind = "number" /\ cfg.wait.n > 0
PortInRange == port.kind = "number" /\ 1 <= port.v /\ port.v <= MaxPort

\* C1: once a capture of a run with a spawned child has ended, by success or by
\* failure, srvProc.kill has been called exactly once.
C1_KilledExactlyOnce == (spawns > 0 /\ CaptureEnded) => kills = 1

\* C2: when the promise of generateSsg is settled and a child was spawned, the
\* child has been killed.
C2_KilledBeforeSettled == (Settled /\ spawns > 0) => child.state = "killed"

\* C3: when generateSsg resolves for a valid configuration, dir.ssg holds the
\* entries of dir.static as copied, index.html with the captured document, and
\* nothing else.
C3_OutputCompleteOnSuccess ==
    (promise = "resolved" /\ cfg.ssrExists /\ ValidWait /\ PortInRange) =>
        \A n \in Names :
            fs[cfg.ssg][n] = IF n \in StaticEntries THEN "static"
                             ELSE IF n = "index.html" THEN "doc"
                             ELSE "absent"

\* C4: when dir.ssr does not exist no child is spawned, no operation on dir.ssg
\* is started, its content stays as it was, and the promise is rejected as soon
\* as the existence check has returned.
C4_MissingSsrFailsUntouched ==
    ~cfg.ssrExists =>
        /\ spawns = 0
        /\ fs = InitialFs
        /\ ensureDirSt = "idle" /\ emptyDirSt = "idle" /\ copySt = "idle"
        /\ promise # "resolved"
        /\ pc \notin {"idle", "pathExists"} => promise = "rejected"

\* C5: when the resolved port is outside [1, 65535] the promise is rejected
\* and no child was spawned.
C5_BadPortNeverSpawns ==
    (Resolved /\ ~PortInRange) => (promise = "rejected" /\ spawns = 0)

\* C6: when wait is neither 'stdout' nor 'ipc' nor a number, no child is ever
\* spawned and the run ends with the promise rejected.
C6_BadWaitNeverSpawns ==
    (cfg.wait.kind # "number" /\ ~ValidWait) =>
        (spawns = 0 /\ (pc = "done" => promise = "rejected"))

\* C7: when wait is a number that is zero or negative, no child is ever
\* spawned, no timer is set, no GET is issued and the run ends with the
\* promise rejected.
C7_NonPositiveWaitNeverSpawns ==
    (cfg.wait.kind = "number" /\ cfg.wait.n <= 0) =>
        /\ spawns = 0
        /\ timer = "none"
        /\ gets = <<>>
        /\ pc = "done" => promise = "rejected"

\* C8 as stated: whenever PORT is present and numeric the resolved port is the
\* value of PORT, whatever the port option is.
C8_EnvAlwaysWins ==
    (Resolved /\ ~envPort.nan) => port = PortNumber(envPort.v)

\* C8 amended: when PORT is a non-zero number and the port option is absent, a
\* [low, high] range or 0, the resolved port is the value of PORT; when the
\* port option is a non-zero number the resolved port is that number, whatever
\* PORT holds.
C8_EnvWinsUnlessExplicit ==
    Resolved =>
        /\ (Truthy(envPort) /\ ~Truthy(NumberOfPort(cfg.port)))
              => port = PortNumber(envPort.v)
        /\ Truthy(NumberOfPort(cfg.port)) => port = PortNumber(cfg.port.v)

\* a run with a range as the port option and PORT set spawned the child on
\* the port of PORT
C8_Witness ==
    /\ Resolved
    /\ Truthy(envPort)
    /\ cfg.port.kind = "array"
    /\ port = PortNumber(envPort.v)
    /\ spawns = 1
    /\ child.PORT = envPort.v

\* C9: a GET is issued only by a step taken when the readiness signal of the
\* configured strategy has fired: with wait = 'stdout' a chunk of the child's
\* stdout is there to be delivered, with a numeric wait the timer set after
\* the spawn has run out; under no other wait value a GET is issued.
C9_GetOnlyAfterReady ==
    [][Len(gets') > Len(gets) =>
          /\ spawns = 1
          /\ \/ cfg.wait = WaitString("stdout") /\ pipe > 0 /\ emitted > 0
             \/ cfg.wait.kind = "number" /\ timer = "expired"]_vars

\* with wait = 'stdout' a chunk was delivered and a GET was issued
C9_Witness ==
    /\ cfg.wait = WaitString("stdout")
    /\ observed >= 1
    /\ Len(gets) >= 1

\* C10: in a run at most one readiness signal is consumed and at most one GET
\* is issued, however many chunks the child writes.
C10_OneShot == observed <= 1 /\ Len(handlers) <= 1 /\ Len(gets) <= 1

\* a capture has failed: its GET failed or its write of index.html failed
CaptureFailed ==
    \/ \E i \in 1..Len(handlers) : handlers[i].st = "failed"
    \/ \E j \in 1..Len(writes) : writes[j] = "failed"

\* C11: in a run whose capture has failed (the GET or the write of index.html)
\* the promise of generateSsg is rejected, and so is never resolved.
C11_CaptureFailureRejects == CaptureFailed => promise = "rejected"

\* C12: with wait = 'stdout' or 'ipc' and a child that has emitted no chunk and
\* no message, the promise of generateSsg is neither resolved nor rejected.
C12_NoSignalNeverSettles ==
    (cfg.wait \in {WaitString("stdout"), WaitString("ipc")}
        /\ emitted = 0 /\ msgs = 0) => ~Settled

\* C13: once a write of the response body has completed, index.html of the
\* configured dir.ssg holds the captured document, whatever dir.ssg is.
C13_IndexWrittenToSsgDir ==
    (\E j \in 1..Len(writes) : writes[j] = "done") =>
        fs[cfg.ssg]["index.html"] = "doc"

\* C14: whenever the child exists, emptyDir(dir.ssg) and copy(dir.static,
\* dir.ssg) have both completed.
C14_PreparedBeforeSpawn ==
    spawns > 0 => (ensureDirSt = "done" /\ emptyDirSt = "done" /\ copySt = "done")

\* C15: emptying never removes a copied entry: once emptyDir and copy have
\* both ended, every entry of dir.static is in dir.ssg as copied.
C15_CopySurvivesEmpty ==
    (emptyDirSt = "done" /\ copySt = "done") =>
        \A n \in StaticEntries : fs[cfg.ssg][n] = "static"

\* C16: with wait = 'ipc', once the child has sent its first message and the
\* run has nothing left to do, one GET has been issued and the child has been
\* killed.
C16_IpcMessageStartsCapture ==
    (cfg.wait = WaitString("ipc") /\ msgs >= 1 /\ ~ENABLED Next) =>
        (Len(gets) >= 1 /\ kills >= 1 /\ child.state = "killed")

\* C17: once srvProc.kill has been called, a capture has been issued before,
\* no write of index.html is still pending and no GET issued before the kill
\* is still in flight.
C17_NoKillDuringCapture ==
    kills > 0 =>
        /\ gets # <<>>
        /\ \A j \in 1..Len(writes) : writes[j] # "pending"
        /\ \A i \in 1..Len(handlers) :
              handlers[i].st = "get" => ~handlers[i].live

\* _generateSsg is past lines 72-80: the search, if needed, has been called
PastResolution == pc \in {"getPort", "done"}

\* C18: getPort is called at most once in a run. With no PORT in the
\* environment, a [low, high] port option gives exactly one call, restricted
\* to startPort = low and stopPort = high, and the port it resolves to lies in
\* that range; an absent port option gives exactly one unrestricted call. A
\* port option that is a non-zero number gives no call and is used unchanged.
C18_SearchOnceAsConfigured ==
    /\ Len(getPortCalls) <= 1
    /\ (PastResolution /\ envPort.nan /\ cfg.port.kind = "array") =>
          /\ getPortCalls = <<[ranged |-> TRUE, startPort |-> cfg.port.lo,
                               stopPort |-> cfg.port.hi]>>
          /\ Resolved => (cfg.port.lo <= port.v /\ port.v <= cfg.port.hi)
    /\ (PastResolution /\ envPort.nan /\ cfg.port.kind = "undefined") =>
          (Len(getPortCalls) = 1 /\ ~getPortCalls[1].ranged)
    /\ Truthy(NumberOfPort(cfg.port)) =>
          (getPortCalls = <<>> /\ (pc = "done" => port = cfg.port))

\* a run with a range, no PORT and a free port in the range searched once and
\* spawned the child on the port found
C18_Witness ==
    /\ pc = "done"
    /\ envPort.nan
    /\ cfg.port = PortRange(5000, 5010)
    /\ Len(getPortCalls) = 1
    /\ port = PortNumber(5003)
    /\ spawns = 1

\* C19: once the child exists, the local variable port is the PORT of the
\* child's environment, and every GET of the run went to that port.
C19_OnePortPerRun ==
    child.state # "none" =>
        /\ port = PortNumber(child.PORT)
        /\ \A i \in 1..Len(gets) : gets[i] = child.PORT

\* two GETs of a run went to the port the child was given, with PORT set in
\* the parent's environment and an explicit port option
C19_Witness ==
    /\ Len(gets) = 2
    /\ gets[1] = child.PORT /\ gets[2] = child.PORT
    /\ Truthy(envPort)
    /\ cfg.port = PortNumber(8080)
    /\ child.PORT = 8080

====
